---- MODULE Spec2Model ----
(***************************************************************************)
(* Model of the client-side viewer engine (public/js/player-viewer.js):    *)
(* document load, page rendering, navigation, resize and SCORM progress    *)
(* persistence.  Promises of the PDF library are modelled as messages in   *)
(* flight (loads, renders) that the environment settles in any order.      *)
(* The request handlers of server.js (/package, /render) are modelled as   *)
(* a second state machine over the variable request.                       *)
(***************************************************************************)
EXTENDS Bags, FiniteSets, Integers, Sequences, TLC

\* ---------------------------------------------------------------- bounds
MaxPages == 3
MaxLoads == 2
MaxDim == 2

\* ------------------------------------------------------------- constants
NoDoc == 0
Sentinel == -1
Radix == 10

VARIABLES
    pdfDoc,        \* NoDoc or the id of the session's document
    currentPage,
    totalPages,
    isRendering,
    currPage,      \* page of the last started render, Sentinel when none
    visitedPages,  \* JS array: elements "true", "false" or "hole"
    lastPdfUrl,    \* id of the url of the last load, NoDoc when none
    scormAPI,      \* "null" or "API"
    lmsPresent,    \* environment: does a parent window expose a SCORM API
    lmsThrows,     \* environment: may a call of the SCORM API throw
    request,       \* the request a handler of server.js is serving
    window,        \* the sizes the browser reports for the window
    pageSize,      \* width and height of a page of the document at scale 1
    scale,         \* the scale the last getPage callback computed
    lmsData,       \* values held by the LMS: [suspend_data, location]
    lmsCommitted,  \* values of lmsData at the last commit
    loads,         \* getDocument promises in flight: set of [id, numPages]
    loadsStarted,  \* number of getDocument calls made so far
    renders,       \* getPage/render promises in flight: bag of [doc, page, stage]
    liveDocs,      \* documents obtained and not destroyed
    resizeDropped, \* history: a resize asked for a re-render that was dropped
    lastReq,       \* history: last renderPage call since the last sentinel reset
    completed,     \* history: pages whose render completed, first load only
    lastOp         \* history: the operation of the last step

vars == <<pdfDoc, currentPage, totalPages, isRendering, currPage, visitedPages,
          lastPdfUrl, scormAPI, lmsPresent, lmsThrows, request, window,
          pageSize, scale, lmsData,
          lmsCommitted, loads, loadsStarted, renders, liveDocs, resizeDropped,
          lastReq, completed, lastOp>>

\* what no operation of the viewer changes
outside == <<lmsPresent, lmsThrows, request, window, pageSize>>

session == <<pdfDoc, currentPage, totalPages, isRendering, currPage,
             visitedPages, lastPdfUrl, scormAPI>>

\* ----------------------------------------------------------- JS strings
\* A string is a sequence of one-character strings.
Digits == <<"0", "1", "2", "3", "4", "5", "6", "7", "8", "9">>

DigitChar(d) == Digits[d + 1]

IsDigit(c) == \E d \in 0..(Radix - 1) : DigitChar(d) = c

DigitVal(c) == CHOOSE d \in 0..(Radix - 1) : DigitChar(d) = c

RECURSIVE ToDecimal(_)
\* String(n) for a non-negative integer n
ToDecimal(n) ==
    IF n < Radix THEN <<DigitChar(n)>>
    ELSE Append(ToDecimal(n \div Radix), DigitChar(n % Radix))

NaN == -1000

RECURSIVE ParseDigits(_, _, _)
ParseDigits(s, i, acc) ==
    IF i > Len(s) \/ ~IsDigit(s[i]) THEN acc
    ELSE ParseDigits(s, i + 1, acc * Radix + DigitVal(s[i]))

RECURSIVE SkipBlanks(_, _)
SkipBlanks(s, i) ==
    IF i <= Len(s) /\ s[i] = " " THEN SkipBlanks(s, i + 1) ELSE i

\* parseInt(s, 10): leading blanks, an optional sign, then the longest run
\* of digits; NaN when there is no digit there
ParseInt(s) ==
    LET i == SkipBlanks(s, 1)
        signed == i <= Len(s) /\ s[i] \in {"-", "+"}
        j == IF signed THEN i + 1 ELSE i
    IN  IF j > Len(s) \/ ~IsDigit(s[j]) THEN NaN
        ELSE IF signed /\ s[i] = "-" THEN 0 - ParseDigits(s, j, 0)
        ELSE ParseDigits(s, j, 0)

\* ----------------------------------------------------------- JS numbers
\* The quotients of the scale computation: a number is num/den in lowest
\* terms, Infinity is 1/0 and NaN is 0/0.  Sizes are non-negative.
RECURSIVE GCD(_, _)
GCD(a, b) == IF b = 0 THEN a ELSE GCD(b, a % b)

Infinity == [num |-> 1, den |-> 0]

NotANumber == [num |-> 0, den |-> 0]

Unit == [num |-> 1, den |-> 1]

\* a / b
Divide(a, b) ==
    IF b = 0 THEN (IF a = 0 THEN NotANumber ELSE Infinity)
    ELSE [num |-> a \div GCD(a, b), den |-> b \div GCD(a, b)]

IsNaN(x) == x = NotANumber

IsFinite(x) == x.den # 0

Less(x, y) == x.num * y.den < y.num * x.den

\* Math.min(x, y)
MathMin(x, y) ==
    IF IsNaN(x) \/ IsNaN(y) THEN NotANumber
    ELSE IF Less(y, x) THEN y ELSE x

\* a || b
Or(a, b) == IF a # 0 THEN a ELSE b

\* ------------------------------------------------------------ JS arrays
RECURSIVE Holes(_)
Holes(k) == IF k <= 0 THEN <<>> ELSE Append(Holes(k - 1), "hole")

\* arr[i - 1] = v for 1-based i; assigning past the end leaves holes
ArraySet(arr, i, v) ==
    IF i <= Len(arr) THEN [arr EXCEPT ![i] = v]
    ELSE arr \o Holes(i - Len(arr) - 1) \o <<v>>

\* !arr[i - 1]
Falsy(arr, i) == i > Len(arr) \/ arr[i] # "true"

\* Array(n).fill(false)
AllFalse(n) == [i \in 1..n |-> "false"]

RECURSIVE Encode(_)
\* visitedPages.map(v => v ? "1" : "0").join(""): map keeps holes and join
\* writes nothing for them
Encode(arr) ==
    IF Len(arr) = 0 THEN <<>>
    ELSE (IF Head(arr) = "hole" THEN <<>>
          ELSE IF Head(arr) = "true" THEN <<"1">> ELSE <<"0">>)
         \o Encode(Tail(arr))

DecodeTruthy(s) == [i \in 1..Len(s) |-> "true"]

\* suspend.split("").map(c => c === "1")
Decode(s) == [i \in 1..Len(s) |-> IF s[i] = "1" THEN "true" ELSE "false"]

\* ----------------------------------------------------------- SCORM store
EmptyStore == [suspend_data |-> <<>>, location |-> <<>>]

\* The helpers work on a view st = [data, committed, calls] of the LMS:
\* its values, its committed values and the API calls made in this step.
\* Each takes the outcome of its API call: throws is TRUE when it throws.
Lms == [data |-> lmsData, committed |-> lmsCommitted, calls |-> <<>>]

\* the outcomes an API call may have
MayThrow == IF lmsThrows THEN BOOLEAN ELSE {FALSE}

Called(st, call) == [st EXCEPT !.calls = Append(@, call)]

\* getSCORMValue: the value it returns
GetSCORMValue(api, key, throws) ==
    IF api = "null" \/ throws THEN <<>> ELSE lmsData[key]

\* setSCORMValue
SetSCORMValue(api, st, key, v, throws) ==
    IF api = "null" THEN st
    ELSE IF throws THEN Called(st, <<"set", key>>)
    ELSE Called([st EXCEPT !.data[key] = v], <<"set", key>>)

\* commitSCORM
CommitSCORM(api, st, throws) ==
    IF api = "null" THEN st
    ELSE IF throws THEN Called(st, <<"commit">>)
    ELSE Called([st EXCEPT !.committed = st.data], <<"commit">>)

\* terminateSCORM
TerminateSCORM(api, st) ==
    IF api = "null" THEN st ELSE Called(st, <<"terminate">>)

FindAPIAlways == "API"

\* findAPI
FindAPI == IF lmsPresent THEN "API" ELSE "null"

\* initSCORM: the call it makes once findAPI has run
InitSCORM(st) ==
    IF FindAPI = "null" THEN st ELSE Called(st, <<"initialize">>)

\* the values a field of the body's config may have: absent, true, false
Given == {"undefined", "true", "false"}

\* config || {}
NoConfig ==
    [sidebarDefaultOpen |-> "undefined", slideSequenceLocked |-> "undefined"]

\* no request is being served
NoRequest ==
    [pc |-> "idle", kind |-> "none", bundle |-> {}, upstream |-> "ok",
     converts |-> TRUE, created |-> FALSE, exists |-> FALSE, files |-> {}, resources |-> <<>>,
     archive |-> {}, response |-> "none", cleanup |-> 0,
     config |-> NoConfig, emitted |-> NoConfig]

\* a window of 3 x 2 and a page of 2 x 3, in units of any length
Desktop == [innerWidth |-> 3, innerHeight |-> 2,
            clientWidth |-> 3, clientHeight |-> 2]

Portrait == [width |-> 2, height |-> 3]

\* no scale computed yet
NoScale == [num |-> 0, den |-> 1]

\* ------------------------------------------------------------- history
\* op: the operation; page: the page it requested or settled, 0 when none;
\* started: render work was started; stale: the settled render belonged to
\* another document than the session's; repeat: the request repeated the
\* last one, which had started work; revisit: the completed page was already
\* marked; afterFail: the step before was a render failure (for next/prev)
\* or a failed load (for the start of a load); calls: the calls the step
\* made on the SCORM API, in order
Op(name, page) ==
    [op |-> name, page |-> page, started |-> FALSE, stale |-> FALSE,
     repeat |-> FALSE, revisit |-> FALSE, afterFail |-> FALSE,
     calls |-> <<>>]

Failures == {"getPageReject", "renderReject"}

LoadFailures == {"startNoUrl", "startReject"}

NoReq == [page |-> Sentinel, started |-> FALSE]

Render(doc, page, stage) == [doc |-> doc, page |-> page, stage |-> stage]

One(r) == SetToBag({r})

NoneCompleted == [pages |-> {}, last |-> 0]

\* ------------------------------------------------------------ renderPage
\* renderPage without the suppression of a repeated request (line 114)
StartsWithoutSentinel(doc, busy, sentinel, pageNumber) ==
    /\ doc # NoDoc
    /\ ~busy

\* lines 113-114: the guards a call has to pass before render work starts
Starts(doc, busy, sentinel, pageNumber) ==
    /\ doc # NoDoc
    /\ ~busy
    /\ sentinel # pageNumber

\* renderPage(pageNumber), called with the document, busy flag and sentinel
\* its caller has just established
RenderPage(doc, busy, sentinel, pageNumber) ==
    /\ IF Starts(doc, busy, sentinel, pageNumber)
       THEN /\ currPage' = pageNumber
            /\ isRendering' = TRUE
            /\ renders' = renders (+) One(Render(doc, pageNumber, "getPage"))
       ELSE /\ currPage' = sentinel
            /\ isRendering' = busy
            /\ renders' = renders
    /\ lastReq' = [page |-> pageNumber,
                   started |-> Starts(doc, busy, sentinel, pageNumber)]

\* was the request the repetition of the last one, which started work
Repeats(pageNumber) == lastReq.page = pageNumber /\ lastReq.started

\* ------------------------------------------------------ startViewerWithPdf
StartViewerNoUrlAfterReset ==
    /\ liveDocs' = liveDocs \ {pdfDoc}
    /\ pdfDoc' = NoDoc
    /\ currPage' = Sentinel
    /\ isRendering' = FALSE
    /\ currentPage' = 1
    /\ totalPages' = 0
    /\ visitedPages' = <<>>
    /\ lastOp' = Op("startNoUrl", 0)
    /\ UNCHANGED <<lastPdfUrl, scormAPI, outside, scale, lmsData, lmsCommitted,
                   loads, loadsStarted, renders, resizeDropped, lastReq,
                   completed>>

\* an empty url: thrown before anything is touched, caught, rethrown
StartViewerNoUrl ==
    /\ lastOp' = Op("startNoUrl", 0)
    /\ UNCHANGED <<session, outside, scale, lmsData, lmsCommitted, loads,
                   loadsStarted, renders, liveDocs, resizeDropped, lastReq,
                   completed>>

\* lines 193-210, up to the await of the loading task
StartViewerBegin(n) ==
    /\ loadsStarted < MaxLoads
    /\ liveDocs' = liveDocs \ {pdfDoc}
    /\ pdfDoc' = NoDoc
    /\ currPage' = Sentinel
    /\ isRendering' = FALSE
    /\ currentPage' = 1
    /\ totalPages' = 0
    /\ visitedPages' = <<>>
    /\ lastPdfUrl' = loadsStarted + 1
    /\ scormAPI' = FindAPI
    /\ loadsStarted' = loadsStarted + 1
    /\ loads' = loads \cup {[id |-> loadsStarted + 1, numPages |-> n,
                             afterFail |-> lastOp.op \in LoadFailures]}
    /\ resizeDropped' = FALSE
    /\ lastReq' = NoReq
    /\ completed' = NoneCompleted
    /\ lastOp' = [Op("startBegin", 0)
                      EXCEPT !.afterFail = lastOp.op \in LoadFailures,
                             !.calls = InitSCORM(Lms).calls]
    /\ UNCHANGED <<outside, scale, lmsData, lmsCommitted, renders>>

RestoredBitmapAnyLength(suspend, n) ==
    IF Len(suspend) > 0 THEN Decode(suspend) ELSE AllFalse(n)

\* lines 220-223: the bitmap restored for a document of n pages
RestoredBitmap(suspend, n) ==
    IF Len(suspend) > 0 /\ Len(suspend) = n THEN Decode(suspend)
    ELSE AllFalse(n)

\* lines 224-229: the page restored for a document of n pages
RestoredPage(location, n) ==
    LET lastLoc == ParseInt(location)
    IN  IF lastLoc # NaN /\ lastLoc >= 1 /\ lastLoc <= n THEN lastLoc ELSE 1

\* the two reads of lines 220 and 224
ReadCalls(api) ==
    IF api = "null" THEN <<>>
    ELSE << <<"get", "suspend_data">>, <<"get", "location">> >>

\* lines 211-234: the loading task resolved
StartViewerResolve(l) ==
    /\ l \in loads
    /\ loads' = loads \ {l}
    /\ pdfDoc' = l.id
    /\ liveDocs' = liveDocs \cup {l.id}
    /\ totalPages' = l.numPages
    /\ \E t1, t2 \in MayThrow :
           /\ visitedPages' =
                  RestoredBitmap(GetSCORMValue(scormAPI, "suspend_data", t1),
                                 l.numPages)
           /\ currentPage' =
                  RestoredPage(GetSCORMValue(scormAPI, "location", t2),
                               l.numPages)
    /\ RenderPage(l.id, isRendering, currPage, currentPage')
    /\ resizeDropped' = (resizeDropped /\ ~lastReq'.started)
    /\ lastOp' = [Op("startResolve", currentPage')
                      EXCEPT !.started = lastReq'.started,
                             !.repeat = Repeats(currentPage'),
                             !.afterFail = l.afterFail,
                             !.calls = ReadCalls(scormAPI)]
    /\ UNCHANGED <<lastPdfUrl, scormAPI, outside, scale, lmsData, lmsCommitted,
                   loadsStarted, completed>>

\* lines 235-246: the loading task rejected
StartViewerReject(l) ==
    /\ l \in loads
    /\ loads' = loads \ {l}
    /\ lastOp' = Op("startReject", 0)
    /\ UNCHANGED <<session, outside, scale, lmsData, lmsCommitted, loadsStarted,
                   renders, liveDocs, resizeDropped, lastReq, completed>>

\* ------------------------------------------------------------ navigation
\* the clamps off by one: currentPage <= totalPages, currentPage >= 1
CanMoveOffByOne(step) ==
    IF step > 0 THEN currentPage <= totalPages ELSE currentPage >= 1

\* lines 256 and 260: currentPage < totalPages, currentPage > 1
CanMove(step) ==
    IF step > 0 THEN currentPage < totalPages ELSE currentPage > 1

NavigateWhenIdle(name, step) ==
    /\ IF pdfDoc # NoDoc /\ CanMove(step) /\ ~isRendering
       THEN /\ currentPage' = currentPage + step
            /\ RenderPage(pdfDoc, isRendering, currPage, currentPage')
            /\ resizeDropped' = (resizeDropped /\ ~lastReq'.started)
            /\ lastOp' = [Op(name, currentPage')
                              EXCEPT !.started = lastReq'.started,
                                     !.repeat = Repeats(currentPage'),
                                     !.afterFail = lastOp.op \in Failures]
       ELSE /\ lastOp' = Op(name, 0)
            /\ UNCHANGED <<currentPage, currPage, isRendering, renders,
                           resizeDropped, lastReq>>
    /\ UNCHANGED <<pdfDoc, totalPages, visitedPages, lastPdfUrl, scormAPI,
                   outside, scale, lmsData, lmsCommitted, loads, loadsStarted,
                   liveDocs, completed>>

\* playerViewer.next / playerViewer.prev with step +1 / -1
Navigate(name, step) ==
    /\ IF pdfDoc # NoDoc /\ CanMove(step)
       THEN /\ currentPage' = currentPage + step
            /\ RenderPage(pdfDoc, isRendering, currPage, currentPage')
            /\ resizeDropped' = (resizeDropped /\ ~lastReq'.started)
            /\ lastOp' = [Op(name, currentPage')
                              EXCEPT !.started = lastReq'.started,
                                     !.repeat = Repeats(currentPage'),
                                     !.afterFail = lastOp.op \in Failures]
       ELSE /\ lastOp' = Op(name, 0)
            /\ UNCHANGED <<currentPage, currPage, isRendering, renders,
                           resizeDropped, lastReq>>
    /\ UNCHANGED <<pdfDoc, totalPages, visitedPages, lastPdfUrl, scormAPI,
                   outside, scale, lmsData, lmsCommitted, loads, loadsStarted,
                   liveDocs, completed>>

NextPage == Navigate("next", 1)

PrevPage == Navigate("prev", -1)

\* the resize listener
Resize ==
    /\ IF pdfDoc # NoDoc /\ currentPage # 0
       THEN /\ RenderPage(pdfDoc, isRendering, Sentinel, currentPage)
            /\ resizeDropped' = ~lastReq'.started
            /\ lastOp' = [Op("resize", currentPage)
                              EXCEPT !.started = lastReq'.started]
       ELSE /\ lastOp' = Op("resize", 0)
            /\ UNCHANGED <<currPage, isRendering, renders, resizeDropped,
                           lastReq>>
    /\ UNCHANGED <<pdfDoc, currentPage, totalPages, visitedPages, lastPdfUrl,
                   scormAPI, outside, scale, lmsData, lmsCommitted, loads,
                   loadsStarted, liveDocs, completed>>

\* playerViewer.destroy
Destroy ==
    /\ liveDocs' = liveDocs \ {pdfDoc}
    /\ pdfDoc' = NoDoc
    /\ lastOp' = Op("destroy", 0)
    /\ UNCHANGED <<currentPage, totalPages, isRendering, currPage,
                   visitedPages, lastPdfUrl, scormAPI, outside, scale, lmsData,
                   lmsCommitted, loads, loadsStarted, renders, resizeDropped,
                   lastReq, completed>>

\* the beforeunload listener (line 97): terminateSCORM
Unload ==
    /\ lastOp' = [Op("unload", 0)
                      EXCEPT !.calls = TerminateSCORM(scormAPI, Lms).calls]
    /\ UNCHANGED <<session, outside, scale, lmsData, lmsCommitted, loads,
                   loadsStarted, renders, liveDocs, resizeDropped, lastReq,
                   completed>>

\* ----------------------------------------------------- the render scale
\* lines 120-121
WrapperW == Or(window.innerWidth, window.clientWidth)

WrapperH == Or(window.innerHeight, window.clientHeight)

ScaleUnguarded(wrapperW, wrapperH, pdfW, pdfH) ==
    LET fit == MathMin(Divide(wrapperW, pdfW), Divide(wrapperH, pdfH))
    IN  IF ~IsFinite(fit) THEN Unit ELSE fit

\* lines 127-128
Scale(wrapperW, wrapperH, pdfW, pdfH) ==
    LET fit == MathMin(Divide(wrapperW, pdfW), Divide(wrapperH, pdfH))
    IN  IF ~IsFinite(fit) \/ fit.num <= 0 THEN Unit ELSE fit

\* ------------------------------------------------- settling of a render
\* does the render belong to a document that is no longer the session's
Stale(r) == r.doc # pdfDoc

\* lines 118-143: the page arrived, the canvas is sized and raster starts
GetPageResolve(r) ==
    /\ BagIn(r, renders)
    /\ r.stage = "getPage"
    /\ renders' = (renders (-) One(r)) (+) One(Render(r.doc, r.page, "render"))
    /\ lastOp' = [Op("getPageResolve", r.page) EXCEPT !.stale = Stale(r)]
    /\ scale' = Scale(WrapperW, WrapperH, pageSize.width, pageSize.height)
    /\ UNCHANGED <<session, outside, lmsData, lmsCommitted, loads,
                   loadsStarted, liveDocs, resizeDropped, lastReq, completed>>

\* a catch handler that forgets to clear the busy flag
RenderFailedResetsSentinel(r, name) ==
    /\ BagIn(r, renders)
    /\ renders' = renders (-) One(r)
    /\ isRendering' = FALSE
    /\ currPage' = Sentinel
    /\ lastOp' = [Op(name, r.page) EXCEPT !.stale = Stale(r)]
    /\ UNCHANGED <<pdfDoc, currentPage, totalPages, visitedPages,
                   lastPdfUrl, scormAPI, outside, scale, lmsData, lmsCommitted,
                   loads, loadsStarted, liveDocs, resizeDropped, lastReq,
                   completed>>

RenderFailedStaysBusy(r, name) ==
    /\ BagIn(r, renders)
    /\ renders' = renders (-) One(r)
    /\ lastOp' = [Op(name, r.page) EXCEPT !.stale = Stale(r)]
    /\ UNCHANGED <<session, outside, scale, lmsData, lmsCommitted, loads,
                   loadsStarted, liveDocs, resizeDropped, lastReq, completed>>

\* lines 154-161: both catch handlers do the same
RenderFailed(r, name) ==
    /\ BagIn(r, renders)
    /\ renders' = renders (-) One(r)
    /\ isRendering' = FALSE
    /\ lastOp' = [Op(name, r.page) EXCEPT !.stale = Stale(r)]
    /\ UNCHANGED <<pdfDoc, currentPage, totalPages, currPage, visitedPages,
                   lastPdfUrl, scormAPI, outside, scale, lmsData, lmsCommitted,
                   loads, loadsStarted, liveDocs, resizeDropped, lastReq,
                   completed>>

GetPageReject(r) == r.stage = "getPage" /\ RenderFailed(r, "getPageReject")

RenderReject(r) == r.stage = "render" /\ RenderFailed(r, "renderReject")

\* marking index pageNumber instead of pageNumber - 1
MarkVisitedOffByOne(arr, pageNumber) ==
    IF Falsy(arr, pageNumber + 1) THEN ArraySet(arr, pageNumber + 1, "true")
    ELSE arr

\* keeping the mark of the rendered page only
MarkVisitedOnly(arr, pageNumber) ==
    ArraySet([i \in 1..Len(arr) |-> "false"], pageNumber, "true")

\* line 146: mark visited
MarkVisited(arr, pageNumber) ==
    IF Falsy(arr, pageNumber) THEN ArraySet(arr, pageNumber, "true") ELSE arr

SavedProgressUncommitted(api, st, arr, pageNumber, t1, t2, t3) ==
    SetSCORMValue(api,
        SetSCORMValue(api, st, "suspend_data", Encode(arr), t1),
        "location", ToDecimal(pageNumber), t2)

\* lines 149-152: the two values set after a render, and their commit;
\* t1, t2, t3 are the outcomes of the three API calls
SavedProgress(api, st, arr, pageNumber, t1, t2, t3) ==
    CommitSCORM(api,
        SetSCORMValue(api,
            SetSCORMValue(api, st, "suspend_data", Encode(arr), t1),
            "location", ToDecimal(pageNumber), t2),
        t3)

\* lines 143-153: the raster finished
RenderResolve(r) ==
    /\ BagIn(r, renders)
    /\ r.stage = "render"
    /\ renders' = renders (-) One(r)
    /\ isRendering' = FALSE
    /\ visitedPages' = MarkVisited(visitedPages, r.page)
    /\ \E t1, t2, t3 \in MayThrow :
           LET st == SavedProgress(scormAPI, Lms, visitedPages', r.page,
                                   t1, t2, t3)
           IN  /\ lmsData' = st.data
               /\ lmsCommitted' = st.committed
               /\ lastOp' = [Op("renderResolve", r.page)
                                 EXCEPT !.stale = Stale(r),
                                        !.revisit = ~Falsy(visitedPages, r.page),
                                        !.calls = st.calls]
    /\ completed' = IF loadsStarted = 1
                     THEN [pages |-> completed.pages \cup {r.page},
                           last |-> r.page]
                     ELSE completed
    /\ UNCHANGED <<pdfDoc, currentPage, totalPages, currPage, lastPdfUrl,
                   scormAPI, outside, scale, loads, loadsStarted, liveDocs,
                   resizeDropped, lastReq>>

\* ------------------------------------------------------------------ spec
Init ==
    /\ pdfDoc = NoDoc
    /\ currentPage = 1
    /\ totalPages = 0
    /\ isRendering = FALSE
    /\ currPage = Sentinel
    /\ visitedPages = <<>>
    /\ lastPdfUrl = NoDoc
    /\ scormAPI = "null"
    /\ lmsPresent = TRUE
    /\ lmsThrows = FALSE
    /\ request = NoRequest
    /\ window = Desktop
    /\ pageSize = Portrait
    /\ scale = NoScale
    /\ lmsData = EmptyStore
    /\ lmsCommitted = lmsData
    /\ loads = {}
    /\ loadsStarted = 0
    /\ renders = EmptyBag
    /\ liveDocs = {}
    /\ resizeDropped = FALSE
    /\ lastReq = NoReq
    /\ completed = NoneCompleted
    /\ lastOp = Op("init", 0)

Next ==
    \/ StartViewerNoUrl
    \/ \E n \in 1..MaxPages : StartViewerBegin(n)
    \/ \E l \in loads : StartViewerResolve(l)
    \/ \E l \in loads : StartViewerReject(l)
    \/ NextPage
    \/ PrevPage
    \/ Resize
    \/ Destroy
    \/ Unload
    \/ \E r \in BagToSet(renders) : GetPageResolve(r)
    \/ \E r \in BagToSet(renders) : GetPageReject(r)
    \/ \E r \in BagToSet(renders) : RenderResolve(r)
    \/ \E r \in BagToSet(renders) : RenderReject(r)

Spec == Init /\ [][Next]_vars

\* ------------------------------------------- one load, any stored progress
\* The viewer opened in an LMS that already holds progress of any content,
\* in an LMS whose calls may throw, or standalone; one document is loaded.
Bits(k) == [1..k -> {"0", "1"}]

StoredBitmaps ==
    UNION {Bits(k) : k \in 0..MaxPages}
        \cup {<<"1", "x">>, [i \in 1..(MaxPages + 1) |-> "1"]}

StoredLocations ==
    {ToDecimal(k) : k \in 0..(MaxPages + 1)}
        \cup {<<>>, <<"x">>, <<"2", "x">>, <<"-", "1">>, <<" ", "2">>,
              <<"+", "2">>, <<"0", "2">>}

\* a bitmap alone, a last page alone, and full bitmaps with a last page
StoredProgress ==
    [suspend_data : StoredBitmaps, location : {<<>>}]
        \cup [suspend_data : {<<>>}, location : StoredLocations]
        \cup [suspend_data : Bits(MaxPages),
              location : {ToDecimal(MaxPages), <<"2", "x">>}]

\* the progress held by an LMS whose calls may throw, or whose API the
\* viewer does not find
FullProgress ==
    {EmptyStore}
        \cup [suspend_data : Bits(MaxPages), location : {ToDecimal(MaxPages)}]

InitStore ==
    /\ pdfDoc = NoDoc
    /\ currentPage = 1
    /\ totalPages = 0
    /\ isRendering = FALSE
    /\ currPage = Sentinel
    /\ visitedPages = <<>>
    /\ lastPdfUrl = NoDoc
    /\ scormAPI = "null"
    /\ lmsPresent \in BOOLEAN
    /\ lmsThrows \in (IF lmsPresent THEN BOOLEAN ELSE {FALSE})
    /\ request = NoRequest
    /\ window = Desktop
    /\ pageSize = Portrait
    /\ scale = NoScale
    /\ lmsData \in (IF lmsPresent /\ ~lmsThrows THEN StoredProgress
                    ELSE FullProgress)
    /\ lmsCommitted = lmsData
    /\ loads = {}
    /\ loadsStarted = 0
    /\ renders = EmptyBag
    /\ liveDocs = {}
    /\ resizeDropped = FALSE
    /\ lastReq = NoReq
    /\ completed = NoneCompleted
    /\ lastOp = Op("init", 0)

NextStore ==
    \/ \E n \in 1..MaxPages : loadsStarted = 0 /\ StartViewerBegin(n)
    \/ \E l \in loads : StartViewerResolve(l)
    \/ NextPage
    \/ PrevPage
    \/ Unload
    \/ \E r \in BagToSet(renders) : GetPageResolve(r)
    \/ \E r \in BagToSet(renders) : RenderResolve(r)

SpecStore == InitStore /\ [][NextStore]_vars

TypeOK ==
    /\ pdfDoc \in 0..MaxLoads
    /\ currentPage \in 1..MaxPages
    /\ totalPages \in 0..MaxPages
    /\ isRendering \in BOOLEAN
    /\ currPage \in {Sentinel} \cup 1..MaxPages
    /\ \A i \in 1..Len(visitedPages) :
           visitedPages[i] \in {"true", "false", "hole"}
    /\ IsABag(renders)

\* ------------------------------------------- one load, any window and page
\* The viewer in a window of any size, zero included, showing a document
\* whose pages have any size; the browser may change the window's size at
\* any moment.
Dims == 0..MaxDim

\* clientWidth/clientHeight are read only when innerWidth/innerHeight is 0
Windows ==
    [innerWidth : Dims, innerHeight : Dims,
     clientWidth : {0, MaxDim}, clientHeight : {0, MaxDim}]

PageSizes == [width : Dims, height : Dims]

InitScale ==
    /\ pdfDoc = NoDoc
    /\ currentPage = 1
    /\ totalPages = 0
    /\ isRendering = FALSE
    /\ currPage = Sentinel
    /\ visitedPages = <<>>
    /\ lastPdfUrl = NoDoc
    /\ scormAPI = "null"
    /\ lmsPresent = TRUE
    /\ lmsThrows = FALSE
    /\ request = NoRequest
    /\ window \in Windows
    /\ pageSize \in PageSizes
    /\ scale = NoScale
    /\ lmsData = EmptyStore
    /\ lmsCommitted = lmsData
    /\ loads = {}
    /\ loadsStarted = 0
    /\ renders = EmptyBag
    /\ liveDocs = {}
    /\ resizeDropped = FALSE
    /\ lastReq = NoReq
    /\ completed = NoneCompleted
    /\ lastOp = Op("init", 0)

\* the browser gives the window another size (the resize event follows)
WindowChange(w) ==
    /\ window' = w
    /\ lastOp' = Op("windowChange", 0)
    /\ UNCHANGED <<session, lmsPresent, lmsThrows, request, pageSize, scale,
                   lmsData, lmsCommitted, loads, loadsStarted, renders,
                   liveDocs, resizeDropped, lastReq, completed>>

NextScale ==
    \/ loadsStarted = 0 /\ StartViewerBegin(1)
    \/ \E l \in loads : StartViewerResolve(l)
    \/ \E w \in Windows : WindowChange(w)
    \/ Resize
    \/ \E r \in BagToSet(renders) : GetPageResolve(r)
    \/ \E r \in BagToSet(renders) : RenderResolve(r)

SpecScale == InitScale /\ [][NextScale]_vars

\* ------------------------------------------------- server.js: /package
\* One request at a time is followed from its arrival to its response and
\* to the timer it leaves behind; request.files is the content of its
\* working directory, request.cleanup the delay of the scheduled deletion
\* (0: none scheduled), request.bundle the viewer assets present in public/,
\* request.converts whether soffice converts the downloaded file.
viewer == <<session, lmsPresent, lmsThrows, window, pageSize, scale,
            lmsData, lmsCommitted, loads,
            loadsStarted, renders, liveDocs, resizeDropped, lastReq,
            completed, lastOp>>

PackageRetentionMs == 1000 * 60 * 5

RenderRetentionMs == 1000 * 60 * 30

\* the files of public/ that the copy targets cover
Assets == {"player.html", "index_lms.html", "css/styles.css",
           "js/pdf.min.js", "js/pdf.worker.min.js", "js/player-viewer.js"}

\* the outcomes of the fetch of the source: a success status with its body
\* read, another status, a rejected fetch, a body stream that breaks
Upstream == {"ok", "status", "transport", "stream"}

Range(f) == {f[i] : i \in DOMAIN f}

Listed(files, f) == f \in files

\* lines 341-351
ResourceFiles(files) ==
    <<"player.html", "index_lms.html", "Config.js", "data/content.pdf">>
        \o SelectSeq(<<"css/styles.css", "js/pdf.min.js",
                       "js/pdf.worker.min.js", "js/player-viewer.js">>,
                     LAMBDA f : Listed(files, f))

Accepting == request.pc = "idle"

\* the catch block of a handler
Failed(r) == [r EXCEPT !.pc = "done", !.response = "500"]

At(kind, pc) == request.kind = kind /\ request.pc = pc

\* lines 291-297
PackageStart(hasUrl, bundle, upstream, config) ==
    /\ Accepting
    /\ request' =
           IF ~hasUrl
           THEN [NoRequest EXCEPT !.pc = "done", !.kind = "package",
                                  !.response = "400"]
           ELSE [NoRequest EXCEPT !.pc = "copy", !.kind = "package",
                                  !.bundle = bundle, !.upstream = upstream,
                                  !.created = TRUE, !.exists = TRUE,
                                  !.config = config]
    /\ UNCHANGED viewer

\* lines 299-311
PackageCopy ==
    /\ At("package", "copy")
    /\ request' = [request EXCEPT !.pc = "fetch", !.files = request.bundle]
    /\ UNCHANGED viewer

PackageFetchUnchecked ==
    /\ At("package", "fetch")
    /\ request' =
           IF request.upstream \in {"ok", "status"}
           THEN [request EXCEPT !.pc = "config",
                                !.files = @ \cup {"data/content.pdf"}]
           ELSE Failed(request)
    /\ UNCHANGED viewer

\* lines 314-322
PackageFetch ==
    /\ At("package", "fetch")
    /\ request' =
           CASE request.upstream = "ok" ->
                  [request EXCEPT !.pc = "config",
                                  !.files = @ \cup {"data/content.pdf"}]
             [] request.upstream = "stream" ->
                  Failed([request EXCEPT
                             !.files = @ \cup {"data/content.pdf"}])
             [] OTHER -> Failed(request)
    /\ UNCHANGED viewer

\* Boolean(v) for v undefined, true or false
ToBoolean(v) == IF v = "true" THEN "true" ELSE "false"

\* generateConfigJS, lines 248-286: the two fields taken from the config
GenerateConfigJS(cfg) ==
    [sidebarDefaultOpen |-> ToBoolean(cfg.sidebarDefaultOpen),
     slideSequenceLocked |-> ToBoolean(cfg.slideSequenceLocked)]

\* lines 325-326
PackageConfig ==
    /\ At("package", "config")
    /\ request' = [request EXCEPT !.pc = "index",
                                  !.files = @ \cup {"Config.js"},
                                  !.emitted = GenerateConfigJS(request.config)]
    /\ UNCHANGED viewer

\* lines 329-338
PackageIndex ==
    /\ At("package", "index")
    /\ request' = [request EXCEPT !.pc = "manifest",
                                  !.files = @ \cup {"index_lms.html"}]
    /\ UNCHANGED viewer

\* lines 341-360
PackageManifest ==
    /\ At("package", "manifest")
    /\ request' = [request EXCEPT !.pc = "zip",
                                  !.resources = ResourceFiles(request.files),
                                  !.files = @ \cup {"imsmanifest.xml"}]
    /\ UNCHANGED viewer

\* lines 363-371: the archive of the whole directory is streamed, and when
\* that ended well the deletion is scheduled
PackageZip(streamed) ==
    /\ At("package", "zip")
    /\ request' =
           IF streamed
           THEN [request EXCEPT !.pc = "done", !.response = "zip",
                                !.archive = request.files,
                                !.cleanup = PackageRetentionMs]
           ELSE Failed(request)
    /\ UNCHANGED viewer

\* ------------------------------------------------- server.js: /render
\* lines 69-76
RenderStart(urlOk, upstream, converts) ==
    /\ Accepting
    /\ request' =
           IF ~urlOk
           THEN [NoRequest EXCEPT !.pc = "done", !.kind = "render",
                                  !.response = "400"]
           ELSE [NoRequest EXCEPT !.pc = "download", !.kind = "render",
                                  !.converts = converts,
                                  !.upstream = upstream,
                                  !.created = TRUE, !.exists = TRUE]
    /\ UNCHANGED viewer

\* lines 84-87
RenderDownload ==
    /\ At("render", "download")
    /\ request' =
           CASE request.upstream = "ok" ->
                  [request EXCEPT !.pc = "convert",
                                  !.files = @ \cup {"input"}]
             [] request.upstream = "stream" ->
                  Failed([request EXCEPT !.files = @ \cup {"input"}])
             [] OTHER -> Failed(request)
    /\ UNCHANGED viewer

\* lines 90-102
RenderConvert ==
    /\ At("render", "convert")
    /\ request' =
           IF request.converts
           THEN [request EXCEPT !.pc = "done", !.response = "json",
                                !.files = @ \cup {"pdf"},
                                !.cleanup = RenderRetentionMs]
           ELSE Failed(request)
    /\ UNCHANGED viewer

\* the callback of the timer of line 102 or 371
CleanupTimer ==
    /\ request.pc = "done"
    /\ request.cleanup > 0
    /\ request.exists
    /\ request' = [request EXCEPT !.exists = FALSE, !.files = {}]
    /\ UNCHANGED viewer

NextPackage ==
    \/ \E hasUrl \in BOOLEAN, bundle \in SUBSET Assets, upstream \in Upstream,
          config \in [sidebarDefaultOpen : Given, slideSequenceLocked : Given] :
           PackageStart(hasUrl, bundle, upstream, config)
    \/ PackageCopy
    \/ PackageFetch
    \/ PackageConfig
    \/ PackageIndex
    \/ PackageManifest
    \/ \E streamed \in BOOLEAN : PackageZip(streamed)
    \/ \E urlOk, converts \in BOOLEAN, upstream \in Upstream :
           RenderStart(urlOk, upstream, converts)
    \/ RenderDownload
    \/ RenderConvert
    \/ CleanupTimer

SpecPackage == Init /\ [][NextPackage]_vars

\* ---------------------------------------------------------------- claims
Calls == {"startResolve", "next", "prev", "resize"}

InFlight == BagCardinality(renders)

store == <<lmsData, lmsCommitted>>

\* C1: a renderPage(p) that repeats the last request, which started render
\* work for p, with no sentinel reset in between, starts no render work
\* and leaves the in-flight renders and the busy flag as they are.
C1_RepeatedRenderSuppressed ==
    [][(lastOp'.op \in Calls /\ lastOp'.repeat)
          => /\ renders' = renders
             /\ isRendering' = isRendering
             /\ currPage' = currPage]_vars

\* a repeated request for the page that was rendered was made and suppressed
C1_Witness ==
    /\ lastOp.op \in Calls
    /\ lastOp.repeat
    /\ ~lastOp.started
    /\ pdfDoc # NoDoc
    /\ currPage = lastOp.page

PageInRange == pdfDoc # NoDoc => (1 <= currentPage /\ currentPage <= totalPages)

Clamped ==
    /\ pdfDoc # NoDoc
    /\ \/ lastOp'.op = "prev" /\ currentPage = 1
       \/ lastOp'.op = "next" /\ currentPage = totalPages

\* C2: while a document is loaded 1 <= currentPage <= totalPages, and prev()
\* on page 1 and next() on the last page change nothing and start no render.
C2_PageClamped ==
    /\ []PageInRange
    /\ [][Clamped => UNCHANGED <<session, renders, store, loads, liveDocs>>]_vars

\* prev() was called on page 1 of a loaded document
C2_Witness ==
    /\ lastOp.op = "prev"
    /\ lastOp.page = 0
    /\ pdfDoc # NoDoc
    /\ currentPage = 1
    /\ totalPages > 1

\* C3: a resize during a render is not dropped: when its re-render could not
\* start because the render of the current page was in flight, a re-render
\* of that page is in flight once the render has completed.
C3_ResizeNotDropped ==
    (/\ pdfDoc # NoDoc
     /\ resizeDropped
     /\ lastOp.op = "renderResolve"
     /\ ~lastOp.stale
     /\ lastOp.page = currentPage)
        => (isRendering /\ currPage = currentPage /\ InFlight > 0)

\* C4: at most one render is in flight.
C4_OneRenderInFlight == InFlight <= 1

\* C5: the completion of a render of another document than the session's
\* marks no page, writes nothing to the store and leaves the busy flag.
C5_StaleCompletionDiscarded ==
    [][(lastOp'.op = "renderResolve" /\ lastOp'.stale)
          => UNCHANGED <<visitedPages, store, isRendering>>]_vars

\* C6: at most one document is obtained and not destroyed.
C6_OneLiveDocument == Cardinality(liveDocs) <= 1

ExpectedBitmap ==
    [i \in 1..totalPages |-> IF i \in completed.pages THEN "1" ELSE "0"]

\* C7: on the first document of a session whose store was empty, once a
\* render has completed, the stored bitmap has "1" exactly at the pages
\* whose render completed, the stored location is the decimal number of the
\* page completed last, and both are committed.
C7_ProgressOfVisits ==
    (loadsStarted = 1 /\ completed.pages # {})
        => /\ lmsData.suspend_data = ExpectedBitmap
           /\ lmsData.location = ToDecimal(completed.last)
           /\ lmsCommitted = lmsData

\* a second render of an already visited page completed after two pages
\* had been visited
C7_Witness ==
    /\ loadsStarted = 1
    /\ lastOp.op = "renderResolve"
    /\ lastOp.revisit
    /\ Cardinality(completed.pages) = 2
    /\ completed.last = 2
    /\ lmsData.location = <<"2">>

\* C8: while a document is loaded the bitmap has totalPages elements, and
\* the bitmap string a render completion writes has totalPages characters,
\* each "0" or "1".
C8_BitmapLength ==
    pdfDoc # NoDoc
        => /\ Len(visitedPages) = totalPages
           /\ lastOp.op = "renderResolve"
                 => /\ Len(lmsData.suspend_data) = totalPages
                    /\ \A i \in 1..Len(lmsData.suspend_data) :
                           lmsData.suspend_data[i] \in {"0", "1"}

\* C9: a step that is not part of a load (neither the reset of
\* startViewerWithPdf nor its restore) keeps every true bit of the bitmap.
C9_VisitedNeverUnset ==
    [][lastOp'.op \notin {"startBegin", "startResolve"}
          => \A i \in 1..Len(visitedPages) :
                 visitedPages[i] = "true"
                     => i <= Len(visitedPages') /\ visitedPages'[i] = "true"]_vars

\* a render completed on a bitmap that had another page marked already
C9_Witness ==
    /\ lastOp.op = "renderResolve"
    /\ ~lastOp.revisit
    /\ pdfDoc # NoDoc
    /\ \E i \in 1..Len(visitedPages) :
           i # lastOp.page /\ visitedPages[i] = "true"

NavAfterFailure ==
    /\ lastOp.op \in Failures
    /\ lastOp'.op \in {"next", "prev"}
    /\ lastOp'.page # 0
    /\ lastOp'.page # currPage

\* C10: a render failure clears the busy flag, marks nothing, writes and
\* commits nothing and starts no render; a next()/prev() that follows it and
\* moves to another page than the last requested one starts a render of
\* that page.
C10_RenderFailureContained ==
    [][/\ lastOp'.op \in Failures
          => /\ ~isRendering'
             /\ UNCHANGED <<visitedPages, store, currPage, currentPage>>
             /\ BagCardinality(renders') = InFlight - 1
       /\ NavAfterFailure
          => /\ isRendering'
             /\ currPage' = currentPage'
             /\ BagCardinality(renders') = InFlight + 1
             /\ BagIn(Render(pdfDoc, currentPage', "getPage"), renders')]_vars

\* after the failure of a render of the session's document next()/prev()
\* moved to another page and its render started
C10_Witness ==
    /\ lastOp.op \in {"next", "prev"}
    /\ lastOp.afterFail
    /\ lastOp.started
    /\ isRendering
    /\ InFlight = 1

\* C11: when the document of a load has been fetched, a render of its
\* current page is in flight, whatever else was in flight before.
C11_LoadStartsRender ==
    lastOp.op = "startResolve"
        => \E r \in BagToSet(renders) :
               r.doc = pdfDoc /\ r.page = currentPage

Reads == scormAPI = "API" /\ ~lmsThrows

\* C12: whatever the LMS holds, the load reaches Ready with a bitmap of
\* pageCount entries; a stored bitmap of another length (or none) gives the
\* all-false bitmap; a stored last page that parses to a page of the
\* document becomes the current page and any other gives page 1.
C12_LenientRestore ==
    [][lastOp'.op = "startResolve"
          => /\ pdfDoc' # NoDoc
             /\ totalPages' \in 1..MaxPages
             /\ Len(visitedPages') = totalPages'
             /\ currentPage' \in 1..totalPages'
             /\ Reads =>
                   /\ Len(lmsData.suspend_data) # totalPages'
                         => visitedPages' = AllFalse(totalPages')
                   /\ \A k \in 1..totalPages' :
                         lmsData.location = ToDecimal(k) => currentPage' = k
                   /\ ParseInt(lmsData.location) \in 1..totalPages'
                         => currentPage' = ParseInt(lmsData.location)
                   /\ ParseInt(lmsData.location) \notin 1..totalPages'
                         => currentPage' = 1]_vars

\* a load resolved on a stored bitmap of another length and a stored last
\* page beyond the document
C12_Witness ==
    /\ lastOp.op = "startResolve"
    /\ Reads
    /\ Len(lmsData.suspend_data) \notin {0, totalPages}
    /\ ParseInt(lmsData.location) > totalPages
    /\ visitedPages = AllFalse(totalPages)
    /\ currentPage = 1

Bitmaps(n) == [1..n -> {"true", "false"}]

\* C13: decoding the encoding of a bitmap gives the bitmap back, and what
\* the LMS holds at any moment of a session restores, for a document of the
\* same page count, to the bitmap the session has.
C13_RoundTrip ==
    /\ \A n \in 1..MaxPages : \A b \in Bitmaps(n) :
           RestoredBitmap(Encode(b), n) = b
    /\ (pdfDoc # NoDoc /\ Reads)
          => RestoredBitmap(lmsCommitted.suspend_data, totalPages)
                 = visitedPages

\* a render completed and the LMS holds a bitmap of visited and unvisited
\* pages that is not the one the session started from
C13_Witness ==
    /\ lastOp.op = "renderResolve"
    /\ Reads
    /\ pdfDoc # NoDoc
    /\ lmsCommitted.suspend_data = Encode(visitedPages)
    /\ \E i, j \in 1..Len(visitedPages) :
           visitedPages[i] = "true" /\ visitedPages[j] = "false"

PersistenceUnit ==
    << <<"set", "suspend_data">>, <<"set", "location">>, <<"commit">> >>

\* C14: the completion of a render sets the bitmap, then the last page,
\* then commits once, all within its own step, so that the LMS holds the
\* new values and has nothing set that is not committed.
C14_SetSetCommit ==
    [][(lastOp'.op = "renderResolve" /\ scormAPI = "API")
          => /\ lastOp'.calls = PersistenceUnit
             /\ lmsData'.suspend_data = Encode(visitedPages')
             /\ lmsData'.location = ToDecimal(lastOp'.page)
             /\ lmsCommitted' = lmsData']_vars

\* a second render completed and its values are the committed ones
C14_Witness ==
    /\ lastOp.op = "renderResolve"
    /\ lastOp.calls = PersistenceUnit
    /\ Cardinality(completed.pages) >= 2
    /\ lmsCommitted.location = ToDecimal(lastOp.page)
    /\ lmsCommitted.suspend_data = Encode(visitedPages)

\* C15: standalone, no step calls the API or changes what an LMS holds, and
\* the reads give the empty string (all-false bitmap, page 1); with or
\* without an API, and whichever of its calls throw, the load reaches Ready
\* with its render started, and a completed render clears the busy flag
\* and marks its page.
C15_StoreNeverAffectsSession ==
    [][/\ ~lmsPresent
          => /\ scormAPI' = "null"
             /\ lastOp'.calls = <<>>
             /\ UNCHANGED store
             /\ lastOp'.op = "startResolve"
                   => /\ visitedPages' = AllFalse(totalPages')
                      /\ currentPage' = 1
       /\ lastOp'.op = "startResolve"
          => /\ pdfDoc' # NoDoc
             /\ Len(visitedPages') = totalPages'
             /\ currentPage' \in 1..totalPages'
             /\ isRendering'
             /\ BagIn(Render(pdfDoc', currentPage', "getPage"), renders')
       /\ lastOp'.op = "renderResolve"
          => /\ ~isRendering'
             /\ visitedPages'[lastOp'.page] = "true"]_vars

\* a render completed while a call setting its progress threw
C15_Witness ==
    /\ lastOp.op = "renderResolve"
    /\ lmsThrows
    /\ lastOp.calls = PersistenceUnit
    /\ lmsData.suspend_data # Encode(visitedPages)
    /\ ~isRendering
    /\ visitedPages[lastOp.page] = "true"

\* C16: at page unload the LMS receives a commit and then a terminate, and
\* the loaded document is disposed.
C16_TeardownCommitsAndDisposes ==
    (lastOp.op = "unload" /\ scormAPI = "API")
        => /\ lastOp.calls = << <<"commit">>, <<"terminate">> >>
           /\ pdfDoc = NoDoc
           /\ liveDocs = {}

\* C17: a load given an empty url changes nothing of the session; a load
\* whose document fetch fails never enters Ready (no document, no render,
\* nothing written); and a load that resolves, after a failed one too,
\* enters Ready with its document.
C17_LoadFailureContained ==
    [][/\ lastOp'.op = "startNoUrl"
          => UNCHANGED <<session, renders, store, loads, liveDocs>>
       /\ lastOp'.op = "startReject"
          => /\ UNCHANGED <<session, renders, store, liveDocs>>
             /\ Cardinality(loads') = Cardinality(loads) - 1
       /\ lastOp'.op = "startResolve"
          => /\ pdfDoc' # NoDoc
             /\ pdfDoc' \notin liveDocs
             /\ totalPages' >= 1
             /\ Len(visitedPages') = totalPages'
       /\ (lastOp.op \in LoadFailures /\ lastOp'.op = "startBegin")
          => /\ lastOp'.afterFail
             /\ Cardinality(loads') = Cardinality(loads) + 1]_vars

\* a load started after a failed one has resolved and its render is in
\* flight
C17_Witness ==
    /\ lastOp.op = "startResolve"
    /\ lastOp.afterFail
    /\ lastOp.started
    /\ pdfDoc # NoDoc
    /\ BagIn(Render(pdfDoc, currentPage, "getPage"), renders)

\* an empty url was given to a session that has a document and a render
\* in flight
C17_EmptyUrlWitness ==
    /\ lastOp.op = "startNoUrl"
    /\ pdfDoc # NoDoc
    /\ isRendering

\* C18: in a package build whose fetch of the PDF does not succeed, no
\* Config.js and no manifest are written and nothing is archived, and the
\* response is a failure.
C18_FetchFailureAborts ==
    (request.kind = "package" /\ request.created
        /\ request.upstream # "ok")
        => /\ "Config.js" \notin request.files
           /\ "imsmanifest.xml" \notin request.files
           /\ request.resources = <<>>
           /\ request.archive = {}
           /\ request.response \in {"none", "500"}
           /\ request.pc \in {"copy", "fetch", "done"}
           /\ request.pc = "done" => request.response = "500"

\* a package build ended on a fetch answered with a failure status
C18_Witness ==
    /\ At("package", "done")
    /\ request.created
    /\ request.upstream = "status"
    /\ request.response = "500"

\* C19: a request that created a working directory and has ended has
\* scheduled its deletion.
C19_CleanupAlwaysScheduled ==
    (request.pc = "done" /\ request.created) => request.cleanup > 0

\* the viewer scripts and stylesheet that are listed only when present
Conditional == {"css/styles.css", "js/pdf.min.js", "js/pdf.worker.min.js",
                "js/player-viewer.js"}

\* C20: every file the manifest lists is in the archive, and every
\* conditionally included file of the archive is listed.
C20_ManifestMatchesArchive ==
    request.response = "zip"
        => /\ \A f \in Range(request.resources) : f \in request.archive
           /\ \A f \in Conditional :
                  f \in request.archive => f \in Range(request.resources)

\* the default of the schema for an unset field, the given boolean otherwise
WithDefault(v) == IF v = "undefined" THEN "true" ELSE v

\* C21: the Config.js written for a package holds, for sidebarDefaultOpen
\* and slideSequenceLocked, the boolean the caller gave, and true where the
\* caller gave none.
C21_ConfigDefaults ==
    "Config.js" \in request.files
        => /\ request.emitted.sidebarDefaultOpen
                 = WithDefault(request.config.sidebarDefaultOpen)
           /\ request.emitted.slideSequenceLocked
                 = WithDefault(request.config.slideSequenceLocked)

\* s = a / b for b > 0, and s <= a / b, on a finite s
Is(s, a, b) == s.num * b = a * s.den

AtMost(s, a, b) == s.num * b <= a * s.den

\* C22: for a window (vw, vh) and a page (pdfW, pdfH), all positive, the
\* scale computed is the smaller of vw/pdfW and vh/pdfH; for a window of
\* no width or no height, or a page of no width and no height, where that
\* minimum is zero, infinite or no number, the scale is 1.
C22_ScaleFitsViewport ==
    [][lastOp'.op = "getPageResolve" =>
          LET vw == WrapperW
              vh == WrapperH
              pdfW == pageSize.width
              pdfH == pageSize.height
          IN  /\ (vw > 0 /\ vh > 0 /\ pdfW > 0 /\ pdfH > 0)
                    => /\ scale'.den > 0
                       /\ AtMost(scale', vw, pdfW)
                       /\ AtMost(scale', vh, pdfH)
                       /\ Is(scale', vw, pdfW) \/ Is(scale', vh, pdfH)
              /\ (vw = 0 \/ vh = 0 \/ (pdfW = 0 /\ pdfH = 0))
                    => scale' = Unit]_vars

\* a page was fitted by its height in a window wider than the page
C22_Witness ==
    /\ lastOp.op = "getPageResolve"
    /\ WrapperW > 0 /\ WrapperH > 0
    /\ pageSize.width > 0 /\ pageSize.height > 0
    /\ Is(scale, WrapperH, pageSize.height)
    /\ ~Is(scale, WrapperW, pageSize.width)
    /\ scale # Unit

\* a page was fitted in a window of no height
C22_ZeroWitness ==
    /\ lastOp.op = "getPageResolve"
    /\ WrapperH = 0
    /\ WrapperW > 0
    /\ scale = Unit

Moves == {"next", "prev"}

\* a next()/prev() has just moved currentPage while the only render in
\* flight kept the viewer busy
MovedWhileBusy ==
    /\ lastOp.op \in Moves
    /\ lastOp.page # 0
    /\ ~lastOp.started
    /\ isRendering
    /\ InFlight = 1

\* what a next()/prev() taken while busy does
DroppedMove(step) ==
    /\ currentPage' = currentPage + step
    /\ currentPage' \in 1..totalPages
    /\ UNCHANGED <<renders, currPage, isRendering, store>>

\* C23: a next()/prev() within bounds, arriving while a render is in
\* flight, moves currentPage by one and starts or queues no render; when
\* the render of the earlier page then completes, the sentinel stays, the
\* last page written to the LMS is the page rendered, not currentPage, and
\* nothing is in flight.
C23_BusyNavigationDropped ==
    [][/\ (lastOp'.op = "next" /\ pdfDoc # NoDoc /\ isRendering
             /\ currentPage < totalPages)
          => DroppedMove(1)
       /\ (lastOp'.op = "prev" /\ pdfDoc # NoDoc /\ isRendering
             /\ currentPage > 1)
          => DroppedMove(-1)
       /\ (MovedWhileBusy /\ lastOp'.op = "renderResolve"
             /\ ~lastOp'.stale /\ lastOp'.page # currentPage)
          => /\ UNCHANGED <<currPage, currentPage>>
             /\ lmsData'.location = ToDecimal(lastOp'.page)
             /\ lmsCommitted'.location # ToDecimal(currentPage')
             /\ ~isRendering'
             /\ InFlight' = 0]_vars

\* the render in flight during a next() completed: the last page written
\* is the one before currentPage and nothing is in flight
C23_Witness ==
    /\ lastOp.op = "renderResolve"
    /\ ~lastOp.stale
    /\ pdfDoc # NoDoc
    /\ currPage = lastOp.page
    /\ currentPage = currPage + 1
    /\ lmsCommitted.location = ToDecimal(currPage)
    /\ ~isRendering
    /\ InFlight = 0

\* the operations that call renderPage without resetting the sentinel
SameSentinelCalls == {"startResolve", "next", "prev"}

\* C24: the failure of the render of the page the sentinel holds leaves
\* the sentinel on that page; a renderPage of that page right after the
\* failure starts nothing; a resize right after it starts the render of
\* the current page.
C24_FailedPageNotRetried ==
    [][/\ (lastOp'.op \in Failures /\ currPage = lastOp'.page)
          => /\ currPage' = lastOp'.page
             /\ ~isRendering'
       /\ (lastOp.op \in Failures /\ lastOp'.op \in SameSentinelCalls
             /\ lastOp'.page # 0 /\ lastOp'.page = currPage)
          => /\ ~lastOp'.started
             /\ UNCHANGED <<renders, currPage, isRendering>>
             /\ ~isRendering'
       /\ (lastOp.op \in Failures /\ lastOp'.op = "resize"
             /\ pdfDoc # NoDoc)
          => /\ lastOp'.started
             /\ isRendering'
             /\ currPage' = currentPage
             /\ BagIn(Render(pdfDoc, currentPage, "getPage"), renders')]_vars

\* the only render ever started has failed, and the renderPage of the same
\* page that a resolving load then made started nothing
C24_Witness ==
    /\ lastOp.op = "startResolve"
    /\ ~lastOp.started
    /\ pdfDoc # NoDoc
    /\ currPage = currentPage
    /\ ~isRendering
    /\ InFlight = 0
    /\ lmsData = EmptyStore

\* a resize right after a failed render started the render again
C24_ResizeWitness ==
    /\ lastOp.op = "resize"
    /\ lastOp.started
    /\ lmsData = EmptyStore
    /\ InFlight = 1
    /\ loadsStarted = 1

====
